---- MODULE Spec2Model ----
(***************************************************************************)
(* Model of src/src/utils/email.ts: the three public email operations      *)
(* (sendContactForm, sendOrderConfirmation, sendDocumentDelivery), the     *)
(* Brevo HTTP sender they share, the grouping of delivered documents by    *)
(* review stage, and formatFileSize.                                       *)
(*                                                                         *)
(* Three specifications:                                                   *)
(*   Spec      one invocation at a time of a public operation, split at    *)
(*             its awaits (dynamic import, emailjs.send, fetch);           *)
(*   SpecDocs  the message construction of sendDocumentDelivery            *)
(*             (documentsByStage, generateStageHtml, textContent);         *)
(*   SpecFmt   formatFileSize applied to byte counts.                      *)
(***************************************************************************)
EXTENDS Integers, Sequences, FiniteSets, TLC

VARIABLES
    apiKey,     \* CONFIG.brevo.apiKey is non-empty (static configuration)
    pc,         \* position of the running invocation
    op,         \* which public operation is running
    email,      \* the address the operation was given
    calls,      \* channel attempts of this invocation, in order, with outcome
    log,        \* console output of this invocation, in order
    result,     \* what the caller gets: "none" (running), "void", or the Error message
    thrown,     \* the Error sendBrevoEmail threw in this invocation, or "none"
    documents,  \* data.documents of the message being built
    byStage,    \* documentsByStage as Object.entries enumerates it
    stageHtml,  \* the three generateStageHtml fragments, in template order
    textDocs,   \* the document entries of textContent, in order
    built,      \* the message construction has run
    bytes,      \* argument of formatFileSize, base-1024 digits, least significant first
    formatted   \* value returned by formatFileSize, or NotFormatted

vars == <<apiKey, pc, op, email, calls, log, result, thrown,
          documents, byStage, stageHtml, textDocs, built, bytes, formatted>>

dispatchVars == <<apiKey, pc, op, email, calls, log, result, thrown>>
docVars == <<documents, byStage, stageHtml, textDocs, built>>
fmtVars == <<bytes, formatted>>

----------------------------------------------------------------------------
(* Bounds *)

MaxLen == 5         \* longest address tried
MaxDocs == 3        \* longest document list tried
MaxLimbs == 5       \* base-1024 digits of the largest byte count tried

----------------------------------------------------------------------------
(* Addresses *)

Alphabet == {"a", "@", ".", " "}

Emails == UNION {[1..n -> Alphabet] : n \in 0..MaxLen}

\* the character class [^\s@]
NotSpaceAt(c) == c \notin {" ", "@"}

\* s[from..to] is a non-empty run of [^\s@]
RunOfClass(s, from, to) ==
    /\ from <= to
    /\ \A x \in from..to : NotSpaceAt(s[x])

validateEmailNoDot(s) ==
    \E i \in 1..Len(s) :
        /\ s[i] = "@"
        /\ RunOfClass(s, 1, i - 1)
        /\ RunOfClass(s, i + 1, Len(s))

\* /^[^\s@]+@[^\s@]+\.[^\s@]+$/.test(email): i is the position of the
\* literal @, j the position the regex matches \. at.
validateEmail(s) ==
    \E i \in 1..Len(s) : \E j \in 1..Len(s) :
        /\ s[i] = "@"
        /\ s[j] = "."
        /\ RunOfClass(s, 1, i - 1)
        /\ RunOfClass(s, i + 1, j - 1)
        /\ RunOfClass(s, j + 1, Len(s))

----------------------------------------------------------------------------
(* The Brevo HTTP exchange *)

Statuses == {200, 201, 400, 401, 500}

\* what response.json() finds in the body
Bodies == {"message_sender", "message_other", "no_message", "not_json"}

Transport == [kind |-> "transport", status |-> 0, body |-> "not_json"]

Responses ==
    {Transport} \cup
    {[kind |-> "http", status |-> st, body |-> b] : st \in Statuses, b \in Bodies}

\* response.ok
ResponseOk(r) == r.kind = "http" /\ r.status >= 200 /\ r.status <= 299

\* errorData.message?.includes('sender'), errorData being {} when the body
\* does not parse
MessageIncludesSender(r) == r.body = "message_sender"

LogBrevoNoKey ==
    << "warn: Brevo API key is not configured. Email will not be sent.",
       "log: To configure Brevo:",
       "log: 1. Go to https://app.brevo.com/settings/keys/api",
       "log: 2. Create an API key",
       "log: 3. Add VITE_BREVO_API_KEY to your .env file",
       "log: 4. Validate your sender email in Brevo dashboard" >>

LogBrevoFailed == "error: Brevo email sending failed"
LogBrevoSent == "log: Email sent successfully via Brevo"

\* the body of sendBrevoEmail's try block, once fetch has settled:
\* the Error it throws, or "none"
BrevoThrown(r) ==
    IF r.kind = "transport" THEN "fetch rejected"
    ELSE IF ~ResponseOk(r) THEN
        IF r.status = 400 /\ MessageIncludesSender(r)
        THEN "Brevo Sender Validation Error"
        ELSE "Brevo API error"
    ELSE IF r.body = "not_json" THEN "SyntaxError"
    ELSE "none"

sendBrevoEmailSwallow(r) ==
    [threw |-> FALSE,
     logs |-> IF BrevoThrown(r) = "none" THEN <<LogBrevoSent>> ELSE <<LogBrevoFailed>>]

sendBrevoEmailSenderSwallowed(r) ==
    IF BrevoThrown(r) = "none"
    THEN [threw |-> FALSE, logs |-> <<LogBrevoSent>>]
    ELSE IF BrevoThrown(r) = "Brevo Sender Validation Error"
    THEN [threw |-> FALSE, logs |-> <<LogBrevoFailed>>]
    ELSE [threw |-> TRUE, logs |-> <<LogBrevoFailed>>]

\* sendBrevoEmail after the fetch: the catch logs and rethrows
sendBrevoEmail(r) ==
    IF BrevoThrown(r) = "none"
    THEN [threw |-> FALSE, logs |-> <<LogBrevoSent>>]
    ELSE [threw |-> TRUE, logs |-> <<LogBrevoFailed>>]

----------------------------------------------------------------------------
(* The public operations, one invocation at a time *)

ErrInvalidSender == "Invalid sender email address"
ErrInvalidRecipient == "Invalid recipient email address"
ErrContact == "Failed to send your message. Please try again later."
ErrDocument == "Failed to send document delivery email. Please try again later."

LogContactFailed == "error: Contact form email failed"
LogOrderFailed == "error: Order confirmation failed"
LogOrderManual == "log: Order completed successfully, but email notification failed. Customer should be notified manually."
LogDocumentFailed == "error: Document delivery email failed"
LogDocumentSent == "log: Document delivery email sent successfully via Brevo"

Attempt(ch) == [channel |-> ch, outcome |-> "pending", response |-> Transport]

\* the last attempt of the invocation settles
Settle(cs, out, r) ==
    [cs EXCEPT ![Len(cs)] = [@ EXCEPT !.outcome = out, !.response = r]]

InitDispatch ==
    /\ apiKey \in BOOLEAN
    /\ pc = "idle"
    /\ op = "none"
    /\ email = << >>
    /\ calls = << >>
    /\ log = << >>
    /\ result = "none"
    /\ thrown = "none"

ContactCatchSwallow == [result |-> "void", logs |-> <<LogContactFailed>>]

\* the catch block of sendContactForm
ContactCatch == [result |-> ErrContact, logs |-> <<LogContactFailed>>]

\* sendContactForm up to its first await (the dynamic import)
sendContactForm(e) ==
    /\ pc = "idle"
    /\ op' = "sendContactForm"
    /\ email' = e
    /\ IF ~validateEmail(e)
       THEN /\ result' = ErrInvalidSender
            /\ pc' = "done"
       ELSE /\ result' = "none"
            /\ pc' = "import_emailjs"
    /\ UNCHANGED <<apiKey, calls, log, thrown>>

\* await import('@emailjs/browser') settles; on success emailjs.send is called
ImportEmailjs(loaded) ==
    /\ pc = "import_emailjs"
    /\ IF loaded
       THEN /\ calls' = Append(calls, Attempt("emailjs"))
            /\ pc' = "emailjs_send"
            /\ UNCHANGED <<log, result>>
       ELSE /\ log' = log \o ContactCatch.logs
            /\ result' = ContactCatch.result
            /\ pc' = "done"
            /\ UNCHANGED calls
    /\ UNCHANGED <<apiKey, op, email, thrown>>

\* await emailjs.send(...) settles
EmailjsSettle(sent) ==
    /\ pc = "emailjs_send"
    /\ IF sent
       THEN /\ calls' = Settle(calls, "ok", Transport)
            /\ result' = "void"
            /\ UNCHANGED log
       ELSE /\ calls' = Settle(calls, "failed", Transport)
            /\ log' = log \o ContactCatch.logs
            /\ result' = ContactCatch.result
    /\ pc' = "done"
    /\ UNCHANGED <<apiKey, op, email, thrown>>

OrderAfterSendRethrow(s) ==
    IF s.threw
    THEN [result |-> "Order confirmation failed", logs |-> <<LogOrderFailed>>]
    ELSE [result |-> "void", logs |-> << >>]

\* sendOrderConfirmation once sendBrevoEmail has settled
OrderAfterSend(s) ==
    IF s.threw
    THEN [result |-> "void", logs |-> <<LogOrderFailed, LogOrderManual>>]
    ELSE [result |-> "void", logs |-> << >>]

DocumentAfterSendFallback(s) ==
    IF s.threw
    THEN [result |-> "void", logs |-> <<LogDocumentFailed>>]
    ELSE [result |-> "void", logs |-> <<LogDocumentSent>>]

\* sendDocumentDelivery once sendBrevoEmail has settled
DocumentAfterSend(s) ==
    IF s.threw
    THEN [result |-> ErrDocument, logs |-> <<LogDocumentFailed>>]
    ELSE [result |-> "void", logs |-> <<LogDocumentSent>>]

AfterSend(o, s) ==
    IF o = "sendOrderConfirmation" THEN OrderAfterSend(s) ELSE DocumentAfterSend(s)

\* what sendBrevoEmail hands its caller when it returns at the apiKey guard
BrevoNoKey == [threw |-> FALSE, logs |-> LogBrevoNoKey]

\* an operation that sends through Brevo, up to the await of fetch
BrevoOperation(o, e) ==
    /\ pc = "idle"
    /\ op' = o
    /\ email' = e
    /\ IF ~validateEmail(e)
       THEN /\ result' = ErrInvalidRecipient
            /\ pc' = "done"
            /\ UNCHANGED <<calls, log>>
       ELSE IF ~apiKey
       THEN /\ log' = log \o BrevoNoKey.logs \o AfterSend(o, BrevoNoKey).logs
            /\ result' = AfterSend(o, BrevoNoKey).result
            /\ pc' = "done"
            /\ UNCHANGED calls
       ELSE /\ calls' = Append(calls, Attempt("brevo"))
            /\ result' = "none"
            /\ pc' = "brevo_fetch"
            /\ UNCHANGED log
    /\ UNCHANGED <<apiKey, thrown>>

sendOrderConfirmation(e) == BrevoOperation("sendOrderConfirmation", e)

\* The message sendDocumentDelivery builds between its validation and its
\* send is a pure function of data.documents and has no part in the
\* dispatch; BuildDocumentMessage models it, under SpecDocs.
sendDocumentDelivery(e) == BrevoOperation("sendDocumentDelivery", e)

BrevoSettleFallback(r) ==
    /\ pc = "brevo_fetch"
    /\ LET s == sendBrevoEmail(r)
           a == AfterSend(op, s)
       IN /\ IF s.threw /\ op = "sendDocumentDelivery"
             THEN /\ calls' = Append(Settle(calls, "failed", r), Attempt("emailjs"))
                  /\ log' = log \o s.logs
                  /\ result' = "none"
                  /\ pc' = "emailjs_send"
             ELSE /\ calls' = Settle(calls, IF s.threw THEN "failed" ELSE "ok", r)
                  /\ log' = log \o s.logs \o a.logs
                  /\ result' = a.result
                  /\ pc' = "done"
          /\ thrown' = (IF s.threw THEN BrevoThrown(r) ELSE "none")
    /\ UNCHANGED <<apiKey, op, email>>

\* await fetch(...) settles with r; sendBrevoEmail and then its caller finish
BrevoSettle(r) ==
    /\ pc = "brevo_fetch"
    /\ LET s == sendBrevoEmail(r)
           a == AfterSend(op, s)
       IN /\ calls' = Settle(calls, IF s.threw THEN "failed" ELSE "ok", r)
          /\ log' = log \o s.logs \o a.logs
          /\ result' = a.result
          /\ thrown' = (IF s.threw THEN BrevoThrown(r) ELSE "none")
    /\ pc' = "done"
    /\ UNCHANGED <<apiKey, op, email>>

\* the caller has its answer; the next invocation starts from nothing
Return ==
    /\ pc = "done"
    /\ pc' = "idle"
    /\ op' = "none"
    /\ email' = << >>
    /\ calls' = << >>
    /\ log' = << >>
    /\ result' = "none"
    /\ thrown' = "none"
    /\ UNCHANGED apiKey

----------------------------------------------------------------------------
(* The message construction of sendDocumentDelivery *)

Names == {"a.pdf", "b.pdf"}
Urls == {"https://files/1", "https://files/2"}

\* review_stage is typed string: any tag can arrive
StageTags == {"review_1", "review_2", "review_3", "draft"}

\* the keys of the documentsByStage literal, in the order it writes them
StageKeys == <<"review_1", "review_2", "review_3">>

DocumentSet == [name : Names, url : Urls, review_stage : StageTags]

DocLists == UNION {[1..n -> DocumentSet] : n \in 0..MaxDocs}

stageLabels(stage) ==
    CASE stage = "review_1" -> "Review 1 - Initial Project Review"
      [] stage = "review_2" -> "Review 2 - Mid-Project Assessment"
      [] stage = "review_3" -> "Review 3 - Final Review & Completion"

StageFilterAll(docs, stage) == docs

\* data.documents.filter(doc => doc.review_stage === stage)
StageFilter(docs, stage) ==
    SelectSeq(docs, LAMBDA doc : doc.review_stage = stage)

documentsByStageReversed(docs) ==
    [k \in 1..3 |-> [stage |-> StageKeys[4 - k],
                     docs |-> StageFilter(docs, StageKeys[4 - k])]]

\* the documentsByStage object, as the sequence of its entries
documentsByStage(docs) ==
    [k \in 1..3 |-> [stage |-> StageKeys[k],
                     docs |-> StageFilter(docs, StageKeys[k])]]

\* what one rendered document entry shows of the document
Entry(doc) == [name |-> doc.name, url |-> doc.url]

Entries(docs) == [x \in 1..Len(docs) |-> Entry(docs[x])]

\* the '' a stage without documents renders as
EmptyFragment == [label |-> "", entries |-> << >>]

\* generateStageHtml(stage), given the entry of documentsByStage it reads
generateStageHtml(group) ==
    IF Len(group.docs) = 0 THEN EmptyFragment
    ELSE [label |-> stageLabels(group.stage), entries |-> Entries(group.docs)]

\* the Object.entries(documentsByStage).map(...).filter(Boolean) of textContent
textContentSections(groups) ==
    SelectSeq([k \in 1..Len(groups) |-> generateStageHtml(groups[k])],
              LAMBDA f : f # EmptyFragment)

RECURSIVE Flatten(_)
Flatten(sections) ==
    IF sections = << >> THEN << >>
    ELSE Head(sections).entries \o Flatten(Tail(sections))

InitDocs ==
    /\ documents = << >>
    /\ byStage = << >>
    /\ stageHtml = << >>
    /\ textDocs = << >>
    /\ built = FALSE

\* sendDocumentDelivery from the grouping to the finished textContent
BuildDocumentMessage(docs) ==
    /\ ~built
    /\ documents' = docs
    /\ byStage' = documentsByStage(docs)
    /\ stageHtml' = [k \in 1..3 |-> generateStageHtml(documentsByStage(docs)[k])]
    /\ textDocs' = textContentSections(documentsByStage(docs))
    /\ built' = TRUE

\* the invocation is over; the next one builds its message from nothing
NextMessage ==
    /\ built
    /\ documents' = << >>
    /\ byStage' = << >>
    /\ stageHtml' = << >>
    /\ textDocs' = << >>
    /\ built' = FALSE

----------------------------------------------------------------------------
(* formatFileSize *)

k == 1024

sizes == <<"Bytes", "KB", "MB", "GB">>

\* Byte counts are written in base k, least significant digit first, so
\* that counts of k^4 and more can be enumerated.  The low four digits
\* range over LimbVals, the digits above them over HighLimbVals.
LimbVals == {0, 1, 128, 1023}
HighLimbVals == {0, 1}

ByteInputs ==
    {b \in [1..MaxLimbs -> LimbVals \cup HighLimbVals] :
        \A x \in 1..MaxLimbs : b[x] \in (IF x <= 4 THEN LimbVals ELSE HighLimbVals)}

IsZero(b) == \A x \in 1..Len(b) : b[x] = 0

\* Math.floor(Math.log(bytes) / Math.log(k)) for bytes >= 1: the index of
\* the leading base-k digit
LogIndex(b) == (CHOOSE x \in 1..Len(b) : b[x] # 0 /\ \A y \in (x+1)..Len(b) : b[y] = 0) - 1

\* floor(200 * (b mod k^i) / k^i), digit by digit
RECURSIVE ScaledFraction(_, _)
ScaledFraction(b, i) ==
    IF i = 0 THEN 0
    ELSE (200 * b[i] + ScaledFraction(b, i - 1)) \div k

toFixed2Truncate(b, i) == 100 * b[i + 1] + ScaledFraction(b, i) \div 2

\* (bytes / Math.pow(k, i)).toFixed(2), in hundredths: the quotient is exact
\* in a double, and toFixed rounds it to the nearest hundredth, a tie upwards
toFixed2(b, i) == 100 * b[i + 1] + (ScaledFraction(b, i) + 1) \div 2

\* parseFloat(...) + '': the digits of a number of hundredths, trailing
\* zeros of the fraction dropped
NumberText(h) ==
    [whole |-> h \div 100,
     decimals |-> IF h % 100 = 0 THEN << >>
                  ELSE IF h % 10 = 0 THEN <<(h % 100) \div 10>>
                  ELSE <<(h % 100) \div 10, h % 10>>]

\* sizes[i], undefined past the end of the array
SizeUnit(i) == IF i + 1 <= Len(sizes) THEN sizes[i + 1] ELSE "undefined"

NotFormatted == [text |-> [whole |-> 0 - 1, decimals |-> << >>], unit |-> "none"]

formatFileSize(b) ==
    IF IsZero(b) THEN [text |-> [whole |-> 0, decimals |-> << >>], unit |-> "Bytes"]
    ELSE [text |-> NumberText(toFixed2(b, LogIndex(b))), unit |-> SizeUnit(LogIndex(b))]

InitFmt ==
    /\ bytes \in ByteInputs
    /\ formatted = NotFormatted

\* the call formatFileSize(bytes) returns
FormatFileSize ==
    /\ formatted = NotFormatted
    /\ formatted' = formatFileSize(bytes)
    /\ UNCHANGED bytes

\* the next byte count to format
NextBytes(b) ==
    /\ formatted # NotFormatted
    /\ bytes' = b
    /\ formatted' = NotFormatted

----------------------------------------------------------------------------
(* Specifications *)

Init ==
    /\ InitDispatch
    /\ InitDocs
    /\ bytes = [x \in 1..MaxLimbs |-> 0]
    /\ formatted = NotFormatted

Next ==
    \/ \E e \in Emails : sendContactForm(e) /\ UNCHANGED <<docVars, fmtVars>>
    \/ \E e \in Emails : sendOrderConfirmation(e) /\ UNCHANGED <<docVars, fmtVars>>
    \/ \E e \in Emails : sendDocumentDelivery(e) /\ UNCHANGED <<docVars, fmtVars>>
    \/ \E loaded \in BOOLEAN : ImportEmailjs(loaded) /\ UNCHANGED <<docVars, fmtVars>>
    \/ \E sent \in BOOLEAN : EmailjsSettle(sent) /\ UNCHANGED <<docVars, fmtVars>>
    \/ \E r \in Responses : BrevoSettle(r) /\ UNCHANGED <<docVars, fmtVars>>
    \/ Return /\ UNCHANGED <<docVars, fmtVars>>

Spec == Init /\ [][Next]_vars

InitD ==
    /\ InitDispatch
    /\ InitDocs
    /\ bytes = [x \in 1..MaxLimbs |-> 0]
    /\ formatted = NotFormatted

NextD ==
    \/ \E docs \in DocLists : BuildDocumentMessage(docs) /\ UNCHANGED <<dispatchVars, fmtVars>>
    \/ NextMessage /\ UNCHANGED <<dispatchVars, fmtVars>>

SpecDocs == InitD /\ [][NextD]_vars

InitF ==
    /\ InitDispatch
    /\ InitDocs
    /\ InitFmt

NextF ==
    \/ FormatFileSize /\ UNCHANGED <<dispatchVars, docVars>>
    \/ \E b \in ByteInputs : NextBytes(b) /\ UNCHANGED <<dispatchVars, docVars>>

SpecFmt == InitF /\ [][NextF]_vars

----------------------------------------------------------------------------
(* Properties of the dispatch (Spec) *)

AtPositions(s) == {x \in 1..Len(s) : s[x] = "@"}

\* The address pattern as the specification words it: no whitespace, a
\* single @ with something before it, and after the @ a dot that has
\* something on both sides.
MatchesPattern(s) ==
    /\ \A x \in 1..Len(s) : s[x] # " "
    /\ Cardinality(AtPositions(s)) = 1
    /\ \A a \in AtPositions(s) :
        /\ a > 1
        /\ \E d \in (a + 2)..(Len(s) - 1) : s[d] = "."

Running == op # "none"
Done == pc = "done"

Failed(c) == c.outcome = "failed"

\* the Brevo exchange of an attempt did not end in a 2xx response
PrimaryFailure(c) == c.channel = "brevo" /\ c.outcome # "pending" /\ ~ResponseOk(c.response)

InLog(entry) == \E x \in 1..Len(log) : log[x] = entry

\* C1: an operation given an address that does not match the pattern fails
\* with the invalid-address error of that operation, and at no point of the
\* invocation is Brevo or EmailJS called.
C1_InvalidAddressRejected ==
    (Running /\ ~MatchesPattern(email)) =>
        /\ Done
        /\ calls = << >>
        /\ result = (IF op = "sendContactForm" THEN ErrInvalidSender ELSE ErrInvalidRecipient)

\* sendDocumentDelivery was given "a@a" with the API key configured
C1_Witness ==
    /\ op = "sendDocumentDelivery"
    /\ apiKey
    /\ email = <<"a", "@", "a">>
    /\ Done
    /\ result = ErrInvalidRecipient

\* C2: without an API key, sendDocumentDelivery with a valid address makes
\* no Brevo call, goes on to the secondary channel, and fails only if the
\* fallback attempts failed.
C2_NoCredentialFallsBack ==
    (op = "sendDocumentDelivery" /\ ~apiKey /\ MatchesPattern(email) /\ Done) =>
        /\ \A x \in 1..Len(calls) : calls[x].channel # "brevo"
        /\ \E x \in 1..Len(calls) : calls[x].channel = "emailjs"
        /\ result # "void" => \A x \in 1..Len(calls) : Failed(calls[x])

\* C3 as stated: after a failed Brevo send, sendDocumentDelivery attempts
\* EmailJS next, then the plain-text fallback, and the terminal error comes
\* only after all three have failed.
C3_EscalatesThroughChannels ==
    (op = "sendDocumentDelivery" /\ Done /\ Len(calls) >= 1 /\ PrimaryFailure(calls[1])) =>
        /\ Len(calls) >= 2
        /\ calls[2].channel = "emailjs"
        /\ result = ErrDocument =>
            /\ Len(calls) = 3
            /\ calls[3].channel = "emailjs"
            /\ \A x \in 1..3 : Failed(calls[x])

\* C3 (amended): after a failed Brevo send, sendDocumentDelivery surfaces its
\* terminal error at once: the failed Brevo attempt is the only attempt of
\* the invocation, and the terminal error is never surfaced otherwise.
C3_FailsAfterPrimaryOnly ==
    /\ (op = "sendDocumentDelivery" /\ Len(calls) >= 1 /\ PrimaryFailure(calls[1])) =>
        /\ Done
        /\ result = ErrDocument
        /\ Len(calls) = 1
    /\ result = ErrDocument =>
        /\ op = "sendDocumentDelivery"
        /\ Done
        /\ Len(calls) = 1
        /\ calls[1].channel = "brevo"
        /\ Failed(calls[1])

\* sendDocumentDelivery failed on an HTTP 500
C3_Witness ==
    /\ op = "sendDocumentDelivery"
    /\ Done
    /\ Len(calls) = 1
    /\ calls[1].response.kind = "http"
    /\ calls[1].response.status = 500
    /\ result = ErrDocument

\* C4: when the Brevo send of sendOrderConfirmation fails (any non-2xx
\* response, or a transport failure), the operation returns normally and
\* the failure is in the log by then.
C4_OrderFailureLoggedNotThrown ==
    (op = "sendOrderConfirmation" /\ Len(calls) >= 1 /\ PrimaryFailure(calls[1])) =>
        /\ Done
        /\ result = "void"
        /\ InLog(LogBrevoFailed)
        /\ InLog(LogOrderFailed)

\* sendOrderConfirmation returned after an HTTP 500
C4_Witness ==
    /\ op = "sendOrderConfirmation"
    /\ Done
    /\ Len(calls) = 1
    /\ calls[1].response.kind = "http"
    /\ calls[1].response.status = 500
    /\ calls[1].response.body = "not_json"
    /\ result = "void"

\* C5 as stated: sendOrderConfirmation completes with a void result for
\* every input.
C5_OrderNeverErrors ==
    (op = "sendOrderConfirmation" /\ Done) => result = "void"

\* C5 (amended): sendOrderConfirmation completes with a void result for
\* every valid recipient address, whatever the channel does; an invalid
\* recipient address is the one thing that makes it fail.
C5_OrderErrorsOnlyOnInvalidAddress ==
    (op = "sendOrderConfirmation" /\ Done) =>
        /\ MatchesPattern(email) => result = "void"
        /\ ~MatchesPattern(email) => result = ErrInvalidRecipient

\* sendOrderConfirmation returned void although fetch was rejected
C5_Witness ==
    /\ op = "sendOrderConfirmation"
    /\ Done
    /\ MatchesPattern(email)
    /\ Len(calls) = 1
    /\ calls[1].response = Transport
    /\ calls[1].outcome = "failed"
    /\ result = "void"

\* C6: sendContactForm with a valid sender address, none of whose channel
\* attempts succeeded, leaves its caller with an error.
C6_ContactFailurePropagates ==
    (op = "sendContactForm" /\ Done /\ MatchesPattern(email)
        /\ \A x \in 1..Len(calls) : Failed(calls[x])) =>
        result = ErrContact

\* emailjs.send was rejected and the caller got the error
C6_Witness ==
    /\ op = "sendContactForm"
    /\ Done
    /\ Len(calls) = 1
    /\ calls[1].channel = "emailjs"
    /\ Failed(calls[1])
    /\ result = ErrContact

\* C10 as stated: EmailJS is attempted only after a failed Brevo attempt of
\* the same invocation, and at most one attempt of an invocation succeeds.
C10_SecondaryOnlyAfterPrimaryFailed ==
    /\ \A x \in 1..Len(calls) :
        calls[x].channel = "emailjs" =>
            \E y \in 1..(x - 1) : calls[y].channel = "brevo" /\ Failed(calls[y])
    /\ Cardinality({x \in 1..Len(calls) : calls[x].outcome = "ok"}) <= 1

\* C10 (amended): an invocation attempts at most one channel, once:
\* sendContactForm attempts EmailJS with no Brevo attempt before it,
\* sendOrderConfirmation and sendDocumentDelivery attempt Brevo and never
\* EmailJS.
C10_OneChannelPerInvocation ==
    /\ Len(calls) <= 1
    /\ \A x \in 1..Len(calls) :
        calls[x].channel = (IF op = "sendContactForm" THEN "emailjs" ELSE "brevo")

\* sendContactForm delivered through EmailJS, Brevo untouched
C10_Witness ==
    /\ op = "sendContactForm"
    /\ Done
    /\ calls = <<[channel |-> "emailjs", outcome |-> "ok", response |-> Transport]>>
    /\ result = "void"

----------------------------------------------------------------------------
(* Properties of the message construction (SpecDocs) *)

TaggedIndexes(docs, tag) == {x \in 1..Len(docs) : docs[x].review_stage = tag}

\* the position in docs of the m-th document tagged tag
NthTagged(docs, tag, m) ==
    CHOOSE x \in TaggedIndexes(docs, tag) :
        Cardinality({y \in TaggedIndexes(docs, tag) : y <= x}) = m

StageNumber(label) == CHOOSE n \in 1..3 : stageLabels(StageKeys[n]) = label

Recognised(doc) == \E n \in 1..3 : doc.review_stage = StageKeys[n]

Occurrences(seq, e) == Cardinality({x \in 1..Len(seq) : seq[x] = e})

AllEntries == [name : Names, url : Urls]

\* C7: grouping gives three partitions in the order stage 1, 2, 3 whatever
\* the input order; each holds exactly the input documents with its tag in
\* their input order; a document with another tag is in none of them; the
\* rendered sections follow the same order.
C7_StagePartitions ==
    built =>
        /\ Len(byStage) = 3
        /\ \A n \in 1..3 :
            /\ byStage[n].stage = StageKeys[n]
            /\ Len(byStage[n].docs) = Cardinality(TaggedIndexes(documents, StageKeys[n]))
            /\ \A m \in 1..Len(byStage[n].docs) :
                byStage[n].docs[m] = documents[NthTagged(documents, StageKeys[n], m)]
            /\ stageHtml[n].entries = Entries(byStage[n].docs)
        /\ \A x \in 1..Len(textDocs) : \A y \in 1..Len(textDocs) :
            x < y => StageNumber(textDocs[x].label) < StageNumber(textDocs[y].label)

\* a stage 3 document came first, then one with an unknown tag, then stage 1
C7_Witness ==
    /\ built
    /\ Len(documents) = 3
    /\ documents[1].review_stage = "review_3"
    /\ documents[2].review_stage = "draft"
    /\ documents[3].review_stage = "review_1"
    /\ Len(textDocs) = 2

\* C8 as stated: the plain-text summary has one entry per input document.
C8_EveryDocumentOnce ==
    built =>
        /\ Len(Flatten(textDocs)) = Len(documents)
        /\ \A e \in AllEntries :
            Occurrences(Flatten(textDocs), e) =
                Cardinality({x \in 1..Len(documents) : Entry(documents[x]) = e})

\* C8 (amended): the plain-text summary has one entry per input document
\* whose review stage is one of the three known tags, and none for a
\* document with any other tag.
C8_EveryRecognisedDocumentOnce ==
    built =>
        /\ Len(Flatten(textDocs)) =
                Cardinality({x \in 1..Len(documents) : Recognised(documents[x])})
        /\ \A e \in AllEntries :
            Occurrences(Flatten(textDocs), e) =
                Cardinality({x \in 1..Len(documents) :
                                Recognised(documents[x]) /\ Entry(documents[x]) = e})

\* two documents of known stages and a third with an unknown tag were summarised
C8_Witness ==
    /\ built
    /\ Len(documents) = 3
    /\ Recognised(documents[1])
    /\ ~Recognised(documents[2])
    /\ Recognised(documents[3])
    /\ Len(Flatten(textDocs)) = 2

----------------------------------------------------------------------------
(* Properties of formatFileSize (SpecFmt) *)

\* floor(log1024(b)) for b >= 1: one less than the number of base-1024
\* digits up to the leading one
FloorLog1024(b) ==
    Cardinality({x \in 1..Len(b) : \E y \in x..Len(b) : b[y] # 0}) - 1

\* the number a rendered mantissa reads as, in hundredths
Hundredths(t) ==
    100 * t.whole +
        (IF Len(t.decimals) = 0 THEN 0
         ELSE IF Len(t.decimals) = 1 THEN 10 * t.decimals[1]
         ELSE 10 * t.decimals[1] + t.decimals[2])

\* C9: formatFileSize(0) is "0 Bytes"; for b >= 1 the unit is the one of
\* Bytes, KB, MB, GB at index floor(log1024(b)) and the mantissa lies in
\* [1.00, 1024.00).
C9_UnitAndMantissa ==
    formatted # NotFormatted =>
        IF IsZero(bytes)
        THEN formatted = [text |-> [whole |-> 0, decimals |-> << >>], unit |-> "Bytes"]
        ELSE /\ \E n \in 1..4 : formatted.unit = sizes[n] /\ n = FloorLog1024(bytes) + 1
             /\ Hundredths(formatted.text) >= 100
             /\ Hundredths(formatted.text) < 102400

----------------------------------------------------------------------------
(* Properties of the Brevo failure kinds (Spec) *)

\* C11: whatever way the Brevo exchange fails (a 400 naming the sender, any
\* other non-2xx response, a non-2xx response with an unparseable body, a
\* transport failure), sendBrevoEmail throws, never the parse error of an
\* error body, and what follows depends on the operation alone: no other
\* channel is attempted, sendOrderConfirmation swallows the error and
\* sendDocumentDelivery propagates its own.
C11_FailureKindsHandledAlike ==
    \A x \in 1..Len(calls) :
        PrimaryFailure(calls[x]) =>
            /\ Failed(calls[x])
            /\ thrown \notin {"none", "SyntaxError"}
            /\ Done
            /\ Len(calls) = 1
            /\ op = "sendOrderConfirmation" =>
                /\ result = "void"
                /\ log = <<LogBrevoFailed, LogOrderFailed, LogOrderManual>>
            /\ op = "sendDocumentDelivery" =>
                /\ result = ErrDocument
                /\ log = <<LogBrevoFailed, LogDocumentFailed>>

\* Brevo answered 400 with a message naming the sender, to sendDocumentDelivery
C11_Witness ==
    /\ op = "sendDocumentDelivery"
    /\ Done
    /\ Len(calls) = 1
    /\ calls[1].response = [kind |-> "http", status |-> 400, body |-> "message_sender"]
    /\ thrown = "Brevo Sender Validation Error"
    /\ result = ErrDocument

\* C12: sendDocumentDelivery returns without an error only if a channel
\* accepted the message during the invocation: a Brevo request was made and
\* answered 2xx, or a fallback send succeeded.
C12_VoidOnlyIfAccepted ==
    (op = "sendDocumentDelivery" /\ Done /\ result = "void") =>
        \E x \in 1..Len(calls) :
            \/ calls[x].channel = "brevo" /\ calls[x].outcome = "ok" /\ ResponseOk(calls[x].response)
            \/ calls[x].channel = "emailjs" /\ calls[x].outcome = "ok"

====
